---- MODULE Spec2Model ----
(***************************************************************************)
(* Risk burndown analytics of RiskBurnDown_BPL: the daily series           *)
(* generator, the monthly aggregator, the peak detector and the drill-down *)
(* query of components/dashboard.py, the stand-alone variants of           *)
(* components/metrics.py, and the filter by role of render_dashboard and   *)
(* utils/helpers.py that comes before them.                                *)
(*                                                                         *)
(* A table cell holding a date is a record [kind, y, m, d]:                *)
(*   kind = "str"  : the text "dd-Mon-yy" (y is the two-digit year),       *)
(*   kind = "None" : a missing value of an object column,                  *)
(*   kind = "ts"   : a pandas Timestamp at midnight (y is the full year),  *)
(*   kind = "NaT"  : the missing value of a datetime column.               *)
(***************************************************************************)
EXTENDS Integers, Sequences, FiniteSets

\* ---------------------------------------------------------------- bounds

\* Most rows of a table whose dates lie around a month end.
MaxRecords == 2
\* The dates of those tables are taken from the days 0..MaxDay counted from
\* Epoch ...
MaxDay == 2
\* ... one every DayStride days (and one month every DayStride months below).
DayStride == 1
\* Most rows of a table whose dates lie months apart, in the months 1..MaxMonth
\* of the year of Epoch.
MonthlyRecords == 1
MaxMonth == 3
\* Rows of a table of risks opened together and closed one after the other.
PeakRecords == 5
\* Most rows of a table of risks of several types.
TypedRecords == 3

\* ------------------------------------------------------------- constants

\* strptime's %y: two-digit years up to 68 are 20yy, the others 19yy.
PivotYear == 68

\* -------------------------------------------------------------- calendar

IsLeap(y) == (y % 4 = 0 /\ y % 100 # 0) \/ y % 400 = 0

DaysInMonth(y, m) ==
    IF m = 2 THEN (IF IsLeap(y) THEN 29 ELSE 28)
    ELSE IF m \in {4, 6, 9, 11} THEN 30 ELSE 31

Ts(y, m, d) == [kind |-> "ts", y |-> y, m |-> m, d |-> d]
NaT == [kind |-> "NaT", y |-> 0, m |-> 0, d |-> 0]
None == [kind |-> "None", y |-> 0, m |-> 0, d |-> 0]
Str(d, m, yy) == [kind |-> "str", y |-> yy, m |-> m, d |-> d]

isna(c) == c.kind \in {"NaT", "None"}
notna(c) == ~isna(c)

\* Timestamp + Timedelta(days=1)
NextDay(t) ==
    IF t.d < DaysInMonth(t.y, t.m) THEN Ts(t.y, t.m, t.d + 1)
    ELSE IF t.m < 12 THEN Ts(t.y, t.m + 1, 1)
    ELSE Ts(t.y + 1, 1, 1)

\* Timestamp - Timedelta(days=1)
PrevDay(t) ==
    IF t.d > 1 THEN Ts(t.y, t.m, t.d - 1)
    ELSE IF t.m > 1 THEN Ts(t.y, t.m - 1, DaysInMonth(t.y, t.m - 1))
    ELSE Ts(t.y - 1, 12, 31)

\* Comparisons of datetime values; any comparison with NaT is False.
TsLt(a, b) ==
    /\ a.kind = "ts" /\ b.kind = "ts"
    /\ \/ a.y < b.y
       \/ a.y = b.y /\ a.m < b.m
       \/ a.y = b.y /\ a.m = b.m /\ a.d < b.d
TsGt(a, b) == TsLt(b, a)
TsLe(a, b) == a.kind = "ts" /\ b.kind = "ts" /\ ~TsLt(b, a)

\* Python's max(a, b): a, unless b > a.
PyMax(a, b) == IF TsGt(b, a) THEN b ELSE a
\* Python's a or b: Timestamp and NaT are both truthy.
PyOr(a, b) == a

\* datetime.strftime("%d-%b-%y")
strftime(t) == Str(t.d, t.m, t.y % 100)

\* Mutant: a value that is no text does not parse, so a column converted once
\* turns to NaT when converted again.
to_datetime_text_only(c) ==
    IF c.kind # "str" THEN NaT
    ELSE IF c.m \in 1..12 /\ c.d >= 1
            /\ c.d <= DaysInMonth(IF c.y <= PivotYear THEN 2000 + c.y ELSE 1900 + c.y, c.m)
         THEN Ts(IF c.y <= PivotYear THEN 2000 + c.y ELSE 1900 + c.y, c.m, c.d)
         ELSE NaT

\* pd.to_datetime(column, format="%d-%b-%y", errors='coerce'), cell by cell
to_datetime_coerce(c) ==
    IF c.kind = "ts" \/ c.kind = "NaT" THEN c
    ELSE IF c.kind = "None" THEN NaT
    ELSE IF c.m \in 1..12 /\ c.d >= 1
            /\ c.d <= DaysInMonth(IF c.y <= PivotYear THEN 2000 + c.y ELSE 1900 + c.y, c.m)
         THEN Ts(IF c.y <= PivotYear THEN 2000 + c.y ELSE 1900 + c.y, c.m, c.d)
         ELSE NaT

\* pd.date_range(start, end, freq='D')
RECURSIVE date_range(_, _)
date_range(start, end) ==
    IF TsLt(end, start) THEN <<>>
    ELSE <<start>> \o date_range(NextDay(start), end)

\* Day 0 of the input dates: 30-Jan-24, so that they straddle a month end.
Epoch == Ts(2024, 1, 30)

\* The date n days after Epoch.
RECURSIVE DateOfDay(_)
DateOfDay(n) == IF n = 0 THEN Epoch ELSE NextDay(DateOfDay(n - 1))

\* --------------------------------------------------------------- periods

\* Timestamp.to_period('M') and Series.dt.to_period('M'); NaT stays NaT.
to_period(t) == IF t.kind = "ts" THEN [kind |-> "period", y |-> t.y, m |-> t.m, d |-> 0] ELSE NaT
\* Period.to_timestamp(): the first day of the month.
to_timestamp(p) == Ts(p.y, p.m, 1)
\* Period + 1
PeriodPlus1(p) ==
    IF p.m < 12 THEN [kind |-> "period", y |-> p.y, m |-> p.m + 1, d |-> 0]
    ELSE [kind |-> "period", y |-> p.y + 1, m |-> 1, d |-> 0]
PeriodLt(a, b) == a.y < b.y \/ (a.y = b.y /\ a.m < b.m)

\* pd.period_range(start, end, freq='M')
RECURSIVE period_range(_, _)
period_range(start, end) ==
    IF PeriodLt(end, start) THEN <<>>
    ELSE <<start>> \o period_range(PeriodPlus1(start), end)

\* Mutant: the snapshot taken at the first day of the month.
MonthEndIsMonthStart(month) == to_timestamp(month)

\* month_end = (month + 1).to_timestamp() - pd.Timedelta(days=1)
MonthEnd(month) == PrevDay(to_timestamp(PeriodPlus1(month)))

\* ----------------------------------------------------------------- table

ALL_STANDARD_COLUMNS ==
    << "Risk ID", "Risk Description", "Risk Open Date",
       "Expected End Date (DD-MMM-YY)", "Closure Date (DD-MMM-YY)",
       "Risk Type", "Probability", "Impact", "Difficulty",
       "Priority", "Action Plan", "Owner" >>

\* A row keeps the three date cells and the 'Risk Type' cell; ym is the cell of
\* the 'YearMonth' column (None while the table has no such column).
TypedRow(o, e, c, t) == [open |-> o, end |-> e, closure |-> c, ym |-> None, risk_type |-> t]
\* A Technical risk.
Row(o, e, c) == TypedRow(o, e, c, "Technical")

\* Mutant: the filter on 'Risk Type' forgotten.
AllRiskTypes(rows) == rows

\* df[df['Risk Type'] == 'Technical']
TechnicalOnly(rows) == SelectSeq(rows, LAMBDA r : r.risk_type = "Technical")

OpenCol(rows) == [i \in 1..Len(rows) |-> rows[i].open]
EndCol(rows) == [i \in 1..Len(rows) |-> rows[i].end]
ClosureCol(rows) == [i \in 1..Len(rows) |-> rows[i].closure]

\* Series.min() / Series.max() of a datetime column: NaT is skipped, and is the
\* result when nothing else is there.
RECURSIVE series_min(_)
series_min(s) ==
    IF Len(s) = 0 THEN NaT
    ELSE LET rest == series_min(Tail(s)) IN
         IF isna(Head(s)) THEN rest
         ELSE IF isna(rest) \/ TsLe(Head(s), rest) THEN Head(s) ELSE rest

RECURSIVE series_max(_)
series_max(s) ==
    IF Len(s) = 0 THEN NaT
    ELSE LET rest == series_max(Tail(s)) IN
         IF isna(Head(s)) THEN rest
         ELSE IF isna(rest) \/ TsLe(rest, Head(s)) THEN Head(s) ELSE rest

\* Series.notna().any()
notna_any(s) == \E i \in 1..Len(s) : notna(s[i])

\* The in-place conversion of the three date columns.
ConvertDates(rows) ==
    [i \in 1..Len(rows) |->
        [rows[i] EXCEPT !.open = to_datetime_coerce(@),
                        !.end = to_datetime_coerce(@),
                        !.closure = to_datetime_coerce(@)]]

\* ---------------------------------------------------- interval classifier

\* Mutant: the expected end date still counts as open (>= for >).
ExpectedOpenInclusiveEnd(r, t) == TsLe(r.open, t) /\ TsLe(t, r.end)

\* Mutant: a risk counts only from the day after it opened (< for <=).
ExpectedOpenStrictStart(r, t) == TsLt(r.open, t) /\ TsGt(r.end, t)

\* Mutant: the isna() alternative forgotten, so a risk never closed is never open.
ActualOpenClosedOnly(r, t) == TsLe(r.open, t) /\ TsGt(r.closure, t)

\* Mutant: a risk still counts as open on its closure date (>= for >).
ActualOpenInclusiveClosure(r, t) == TsLe(r.open, t) /\ (isna(r.closure) \/ TsLe(t, r.closure))

\* dashboard.py generate_burndown:
\* (df_part['Risk Open Date'] <= current_date) &
\* (df_part['Expected End Date (DD-MMM-YY)'] > current_date)
ExpectedOpen(r, t) == TsLe(r.open, t) /\ TsGt(r.end, t)

\* (df_part['Risk Open Date'] <= current_date) &
\* (df_part['Closure Date (DD-MMM-YY)'].isna() | (df_part['Closure Date (DD-MMM-YY)'] > current_date))
ActualOpen(r, t) == TsLe(r.open, t) /\ (isna(r.closure) \/ TsGt(r.closure, t))

\* The same two masks as metrics.py generate_burndown writes them.
MetricsExpected(r, t) == TsLe(r.open, t) /\ TsGt(r.end, t)
MetricsActual(r, t) == TsLe(r.open, t) /\ (isna(r.closure) \/ TsGt(r.closure, t))

\* Mutant: in the monthly snapshot the expected end date still counts as open.
MonthlyExpectedInclusiveEnd(r, month_end) == TsLe(r.open, month_end) /\ TsLe(month_end, r.end)

\* ... as generate_monthly_metrics writes them, against month_end.
MonthlyExpected(r, month_end) == TsLe(r.open, month_end) /\ TsGt(r.end, month_end)
MonthlyActual(r, month_end) ==
    TsLe(r.open, month_end) /\ (isna(r.closure) \/ TsGt(r.closure, month_end))

\* ... and the actual-open mask of plot_burndown, for the highest peak and for
\* the selected date.
PeakRisksMask(r, highest_peak_date) ==
    TsLe(r.open, highest_peak_date)
        /\ (isna(r.closure) \/ TsGt(r.closure, highest_peak_date))
\* Mutant: the isna() alternative forgotten in the mask for the selected date.
DrillDownMaskClosedOnly(r, selected_date_dt) ==
    TsLe(r.open, selected_date_dt) /\ TsGt(r.closure, selected_date_dt)
DrillDownMask(r, selected_date_dt) ==
    TsLe(r.open, selected_date_dt)
        /\ (isna(r.closure) \/ TsGt(r.closure, selected_date_dt))

\* ------------------------------------------------- daily series generator

\* Mutant: the closure dates left out of the upper bound.
MaxDateExpectedOnly(rows) == series_max(EndCol(rows))

\* dashboard.py: max(E.max(), C.max() if C.notna().any() else E.max())
DashMaxDate(rows) ==
    PyMax(series_max(EndCol(rows)),
          IF notna_any(ClosureCol(rows)) THEN series_max(ClosureCol(rows))
          ELSE series_max(EndCol(rows)))

\* Mutant: the two arguments of max() the other way round.
MetricsMaxDateClosureFirst(rows) ==
    PyMax(PyOr(series_max(ClosureCol(rows)), series_max(EndCol(rows))),
          series_max(EndCol(rows)))

\* metrics.py: max(E.max(), C.max() or E.max())
MetricsMaxDate(rows) ==
    PyMax(series_max(EndCol(rows)),
          PyOr(series_max(ClosureCol(rows)), series_max(EndCol(rows))))

\* Mutant: the last day left out of the timeline.
TimelineBeforeMaxDate(min_date, max_date) == date_range(min_date, PrevDay(max_date))

\* timeline = pd.date_range(start=min_date, end=max_date, freq='D')
Timeline(min_date, max_date) == date_range(min_date, max_date)

\* The loop over the timeline: df_part[mask].shape[0] for each date.
ExpectedCounts(rows, tl) ==
    [i \in 1..Len(tl) |-> Len(SelectSeq(rows, LAMBDA r : ExpectedOpen(r, tl[i])))]
ActualCounts(rows, tl) ==
    [i \in 1..Len(tl) |-> Len(SelectSeq(rows, LAMBDA r : ActualOpen(r, tl[i])))]
MetricsExpectedCounts(rows, tl) ==
    [i \in 1..Len(tl) |-> Len(SelectSeq(rows, LAMBDA r : MetricsExpected(r, tl[i])))]
MetricsActualCounts(rows, tl) ==
    [i \in 1..Len(tl) |-> Len(SelectSeq(rows, LAMBDA r : MetricsActual(r, tl[i])))]

NoSeries(r, e) ==
    [ret |-> r, err |-> e, max_date |-> NaT, timeline |-> <<>>, expected |-> <<>>, actual |-> <<>>]

\* Mutant: the guard for the empty table forgotten; min() and max() of an empty
\* column are NaT.
DashBurndownNoEmptyGuard(rows) ==
    LET min_date == series_min(OpenCol(rows))
        max_date == DashMaxDate(rows)
    IN  IF isna(min_date) \/ isna(max_date) THEN NoSeries("unset", "ValueError")
        ELSE LET tl == Timeline(min_date, max_date) IN
             [ret |-> "series", err |-> "", max_date |-> max_date, timeline |-> tl,
              expected |-> ExpectedCounts(rows, tl), actual |-> ActualCounts(rows, tl)]

\* dashboard.py generate_burndown(df_part), on converted rows. pd.date_range
\* raises ValueError on a NaT end point.
DashBurndown(rows) ==
    LET min_date == series_min(OpenCol(rows))
        max_date == DashMaxDate(rows)
    IN  IF Len(rows) = 0 THEN NoSeries("None", "")
        ELSE IF isna(min_date) \/ isna(max_date) THEN NoSeries("unset", "ValueError")
        ELSE LET tl == Timeline(min_date, max_date) IN
             [ret |-> "series", err |-> "", max_date |-> max_date, timeline |-> tl,
              expected |-> ExpectedCounts(rows, tl), actual |-> ActualCounts(rows, tl)]

\* metrics.py generate_burndown(df), after its conversion of the date columns.
MetricsBurndown(rows) ==
    LET min_date == series_min(OpenCol(rows))
        max_date == MetricsMaxDate(rows)
    IN  IF isna(min_date) \/ isna(max_date) THEN NoSeries("unset", "ValueError")
        ELSE LET tl == Timeline(min_date, max_date) IN
             [ret |-> "series", err |-> "", max_date |-> max_date, timeline |-> tl,
              expected |-> MetricsExpectedCounts(rows, tl),
              actual |-> MetricsActualCounts(rows, tl)]

\* ----------------------------------------------------------- peak detector

IndexSeq(n) == [i \in 1..n |-> i]

\* max(actual_counts) of a non-empty list
ListMax(s) == CHOOSE v \in {s[i] : i \in 1..Len(s)} : \A j \in 1..Len(s) : s[j] <= v

\* Mutant: a count equal to the threshold is no peak (> for >=).
AbovePeakThreshold(count, mx) == 10 * count > 8 * mx

\* Mutant: the threshold above the maximum (1.2 for 0.8).
AtOrAboveRaisedThreshold(count, mx) == 10 * count >= 12 * mx

\* count >= max(actual_counts) * 0.8, the product being exact in floating point
\* for counts of this size: 10 * count >= 8 * max.
AtOrAbovePeakThreshold(count, mx) == 10 * count >= 8 * mx

\* [i for i, count in enumerate(actual_counts) if count >= peak_threshold]
\* (indices are 1-based here, 0-based in the source)
PeaksIndices(ac) ==
    IF Len(ac) = 0 THEN <<>>
    ELSE LET mx == ListMax(ac)
         IN SelectSeq(IndexSeq(Len(ac)), LAMBDA i : AtOrAbovePeakThreshold(ac[i], mx))

\* Mutant: the last flagged index taken for the highest peak.
LastPeakIdx(peaks, ac) == peaks[Len(peaks)]

\* max(peaks_indices, key=lambda i: actual_counts[i]): the first index of the
\* largest count.
HighestPeakIdx(peaks, ac) ==
    LET best == SelectSeq(peaks, LAMBDA i : \A j \in 1..Len(peaks) : ac[peaks[j]] <= ac[i])
    IN best[1]

\* ------------------------------------------------------ monthly aggregator

\* Mutant: the month of the expected end date taken for the month of opening.
WithYearMonthOfEnd(rows) ==
    [i \in 1..Len(rows) |-> [rows[i] EXCEPT !.ym = to_period(to_datetime_coerce(rows[i].end))]]

\* df_part['YearMonth'] = df_part['Risk Open Date'].dt.to_period('M')
WithYearMonth(rows) ==
    [i \in 1..Len(rows) |-> [rows[i] EXCEPT !.ym = to_period(to_datetime_coerce(rows[i].open))]]

\* Mutant: every month present counted once, however many rows it has.
GroupByOnePerMonth(rows) ==
    [p \in {rows[i].ym : i \in {j \in 1..Len(rows) : notna(rows[j].ym)}} |-> 1]

\* df_part.groupby('YearMonth').size(): one entry per month present in the
\* column (NaT is no group), as the function month -> number of rows.
GroupBySize(rows) ==
    [p \in {rows[i].ym : i \in {j \in 1..Len(rows) : notna(rows[j].ym)}} |->
        Cardinality({i \in 1..Len(rows) : rows[i].ym = p})]

RECURSIVE SumOver(_, _)
SumOver(f, S) ==
    IF S = {} THEN 0
    ELSE LET x == CHOOSE x \in S : TRUE IN f[x] + SumOver(f, S \ {x})

\* Series.mean(), as the fraction num / den (den = 0: the mean of nothing, NaN)
SeriesMean(f) == [num |-> SumOver(f, DOMAIN f), den |-> Cardinality(DOMAIN f)]

\* monthly_risks_opened.reindex(monthly_timeline, fill_value=0).values
Reindex(f, mtl) == [i \in 1..Len(mtl) |-> IF mtl[i] \in DOMAIN f THEN f[mtl[i]] ELSE 0]

\* Mutant: the closure dates left out of the last month.
MonthlyMaxDateExpectedOnly(rows) == series_max(EndCol(rows))

\* generate_monthly_metrics: max(E.max(), C.max() if C.notna().any() else E.max())
MonthlyMaxDate(rows) ==
    PyMax(series_max(EndCol(rows)),
          IF notna_any(ClosureCol(rows)) THEN series_max(ClosureCol(rows))
          ELSE series_max(EndCol(rows)))

\* pd.period_range(start=min_date.to_period('M'), end=max_date.to_period('M'), freq='M')
MonthlyTimeline(rows) ==
    period_range(to_period(series_min(OpenCol(rows))), to_period(MonthlyMaxDate(rows)))

MonthlyExpectedOpen(rows, mtl) ==
    [i \in 1..Len(mtl) |-> Len(SelectSeq(rows, LAMBDA r : MonthlyExpected(r, MonthEnd(mtl[i]))))]
MonthlyActualOpen(rows, mtl) ==
    [i \in 1..Len(mtl) |-> Len(SelectSeq(rows, LAMBDA r : MonthlyActual(r, MonthEnd(mtl[i]))))]

\* peak_risks = df_part[mask at highest_peak_date]
PeakRisks(rows, highest_peak_date) ==
    SelectSeq(rows, LAMBDA r : PeakRisksMask(r, highest_peak_date))

\* open_risks_on_date = df_part[mask at selected_date_dt]
DrillDown(rows, selected_date_dt) ==
    SelectSeq(rows, LAMBDA r : DrillDownMask(r, selected_date_dt))

\* ----------------------------------------------------------------- state

VARIABLES
    pc,                 \* where the page rendering (or the metrics.py caller) stands
    df,                 \* the table handed to the generators: [columns, rows]
    df_arg,             \* the table as it was when the last generator was called
    ret,                \* what generate_burndown returned: "unset", "None", "series"
    timeline, expected_counts, actual_counts,
    peaks_indices, peak_risks, selected_date, open_risks_on_date,
    mret,               \* what generate_monthly_metrics returned
    monthly_timeline, monthly_rpm_df, avg_rpm,
    err,                \* the exception that ended the rendering, "" if none
    burndown_calls,     \* what each call of generate_burndown so far produced
    user_type,          \* st.session_state.user_type
    uploaded_df,        \* the table as load_data() or the upload gave it
    part,               \* the part being rendered: "tech" (df_tech), "bus" (df_bus)
    filtered_df         \* the rows of the 'Current Risks' listing of add_risk.py

vars == << pc, df, df_arg, ret, timeline, expected_counts, actual_counts,
           peaks_indices, peak_risks, selected_date, open_risks_on_date,
           mret, monthly_timeline, monthly_rpm_df, avg_rpm, err, burndown_calls,
           user_type, uploaded_df, part, filtered_df >>

burndown_vars == << ret, timeline, expected_counts, actual_counts >>
plot_vars == << peaks_indices, peak_risks, selected_date, open_risks_on_date >>
role_vars == << user_type, uploaded_df, part, filtered_df >>
monthly_vars == << mret, monthly_timeline, monthly_rpm_df, avg_rpm >>

\* ---------------------------------------------------------------- inputs

InputDates == {DateOfDay(n) : n \in {k \in 0..MaxDay : k % DayStride = 0}}

\* Rows as add_risk.py and the spreadsheet store them: dates as "dd-Mon-yy"
\* text, the closure date possibly missing.
InputRows ==
    {Row(strftime(o), strftime(e), c) :
        o \in InputDates, e \in InputDates,
        c \in {strftime(x) : x \in InputDates} \cup {None}}

EmptyRpm == [YearMonth |-> <<>>, RisksOpened |-> <<>>,
             ExpectedOpenRisks |-> <<>>, ActualOpenRisks |-> <<>>]
NoMean == [num |-> 0, den |-> 0]

InitRest ==
    /\ pc = "loaded"
    /\ df_arg = df
    /\ ret = "unset" /\ timeline = <<>> /\ expected_counts = <<>> /\ actual_counts = <<>>
    /\ peaks_indices = <<>> /\ peak_risks = <<>>
    /\ selected_date = NaT /\ open_risks_on_date = <<>>
    /\ mret = "unset" /\ monthly_timeline = <<>> /\ monthly_rpm_df = EmptyRpm
    /\ avg_rpm = NoMean
    /\ err = ""
    /\ burndown_calls = <<>>
    /\ uploaded_df = df
    /\ part = ""
    /\ filtered_df = <<>>

\* Rows whose dates lie months apart: opened on the first of a month, expected
\* to end on the last day of a month, closed (if at all) on the 15th of a month.
InputMonths == {m \in 1..MaxMonth : (m - 1) % DayStride = 0}
MonthlyRows ==
    {Row(strftime(Ts(Epoch.y, mo, 1)), strftime(Ts(Epoch.y, me, DaysInMonth(Epoch.y, me))), c) :
        mo \in InputMonths, me \in InputMonths,
        c \in {strftime(Ts(Epoch.y, mc, 15)) : mc \in InputMonths} \cup {None}}

\* Rows opened on the first input date and expected to end on the last one.
PeakRows ==
    {Row(strftime(Epoch), strftime(DateOfDay(MaxDay - (MaxDay % DayStride))), c) :
        c \in {strftime(x) : x \in InputDates} \cup {None}}

SeqsUpTo(S, n) == UNION {[1..k -> S] : k \in 0..n}

\* Tables of Technical risks, as a technical manager would keep them.
InputTables ==
    SeqsUpTo(InputRows, MaxRecords) \cup SeqsUpTo(MonthlyRows, MonthlyRecords)
        \cup [1..PeakRecords -> PeakRows]

\* USERS[...]['type'] of settings.py and the default of init_auth.
UserTypes == {"tech", "upper", "User"}
\* Two of RISK_TYPE_OPTIONS.
RiskTypes == {"Technical", "Quality"}

\* Rows of risks of several types, all with the same dates.
TypedRows ==
    {TypedRow(strftime(Epoch), strftime(DateOfDay(MaxDay - (MaxDay % DayStride))), None, t) :
        t \in RiskTypes}
TypedTables == SeqsUpTo(TypedRows, TypedRecords)

Init ==
    /\ \/ /\ df \in {[columns |-> ALL_STANDARD_COLUMNS, rows |-> r] : r \in InputTables}
          /\ user_type = "tech"
       \/ /\ df \in {[columns |-> ALL_STANDARD_COLUMNS, rows |-> r] : r \in TypedTables}
          /\ user_type \in UserTypes
    /\ InitRest

\* --------------------------------------------------------------- actions

\* render_dashboard: the page stops on an empty table; for the technical
\* manager the table is cut down to the Technical risks.
tech_manager_filter ==
    /\ pc = "loaded"
    /\ IF Len(df.rows) = 0
       THEN pc' = "stopped" /\ UNCHANGED << df, df_arg >>
       ELSE /\ df' = IF user_type = "tech" THEN [df EXCEPT !.rows = TechnicalOnly(df.rows)]
                     ELSE df
            /\ df_arg' = df'
            /\ pc' = "filtered"
    /\ UNCHANGED << burndown_vars, plot_vars, monthly_vars, err, burndown_calls, role_vars >>

\* render_dashboard: the date conversion of the page's table.
date_conversion ==
    /\ pc = "filtered"
    /\ df' = [df EXCEPT !.rows = ConvertDates(df.rows)]
    /\ df_arg' = df'
    /\ pc' = "converted"
    /\ UNCHANGED << burndown_vars, plot_vars, monthly_vars, err, burndown_calls, role_vars >>

\* render_dashboard: df_tech and df_bus are copied from the page's table; the
\* technical manager is shown df_tech, anyone else df_tech and df_bus. From
\* here on df is the part being rendered.
select_part ==
    /\ pc = "converted"
    /\ \E p \in (IF user_type = "tech" THEN {"tech"} ELSE {"tech", "bus"}) :
        /\ part' = p
        /\ df' = IF p = "tech" THEN [df EXCEPT !.rows = TechnicalOnly(df.rows)] ELSE df
    /\ df_arg' = df'
    /\ pc' = "part"
    /\ UNCHANGED << burndown_vars, plot_vars, monthly_vars, err, burndown_calls,
                    user_type, uploaded_df, filtered_df >>

\* helpers.py filter_by_user_type(df), for the listing of add_risk.py
filter_by_user_type ==
    /\ pc = "loaded"
    /\ filtered_df' = IF user_type = "tech" THEN TechnicalOnly(df.rows) ELSE df.rows
    /\ pc' = "listed"
    /\ UNCHANGED << df, df_arg, burndown_vars, plot_vars, monthly_vars, err, burndown_calls,
                    user_type, uploaded_df, part >>

\* dashboard.py generate_burndown(df_part); the page calls it for df_tech and
\* again for df_bus, which holds the same records when every risk is Technical.
generate_burndown ==
    /\ pc \in {"part", "burndown"}
    /\ \E b \in {DashBurndown(df.rows)} :
        /\ ret' = b.ret
        /\ timeline' = b.timeline
        /\ expected_counts' = b.expected
        /\ actual_counts' = b.actual
        /\ err' = b.err
        /\ burndown_calls' = Append(burndown_calls, b)
        /\ pc' = IF b.err # "" THEN "failed"
                 ELSE IF pc = "part" THEN "burndown" ELSE "burndown2"
    /\ df_arg' = df
    /\ UNCHANGED << df, plot_vars, monthly_vars, role_vars >>

\* The dates the user may pick in st.date_input: any date; here the ends of the
\* timeline and the days just outside it.
DateInputChoices(tl) ==
    {PrevDay(tl[1]), tl[1], tl[Len(tl)], NextDay(tl[Len(tl)])}

\* dashboard.py plot_burndown(timeline, expected_counts, actual_counts, title, df_part)
plot_burndown ==
    /\ pc \in {"burndown", "burndown2"}
    /\ IF ret = "None"
       THEN /\ pc' = "plotted"
            /\ UNCHANGED << plot_vars, err >>
       ELSE /\ peaks_indices' = PeaksIndices(actual_counts)
            /\ peak_risks' =
                 IF peaks_indices' # <<>>
                 THEN PeakRisks(df.rows,
                          timeline[HighestPeakIdx(peaks_indices', actual_counts)])
                 ELSE <<>>
            /\ IF Len(timeline) = 0
               THEN \* timeline[-1] of an empty index
                    /\ err' = "IndexError"
                    /\ pc' = "failed"
                    /\ UNCHANGED << selected_date, open_risks_on_date >>
               ELSE \E t \in DateInputChoices(timeline) :
                    /\ selected_date' = t
                    /\ open_risks_on_date' = DrillDown(df.rows, t)
                    /\ pc' = "plotted"
                    /\ UNCHANGED err
    /\ UNCHANGED << df, df_arg, burndown_vars, monthly_vars, burndown_calls, role_vars >>

\* dashboard.py generate_monthly_metrics(df_part)
generate_monthly_metrics ==
    /\ pc = "plotted"
    /\ df_arg' = df
    /\ IF Len(df.rows) = 0
       THEN /\ mret' = "None"
            /\ UNCHANGED << df, monthly_timeline, monthly_rpm_df, avg_rpm >>
       ELSE LET rows == WithYearMonth(df.rows)
                monthly_risks_opened == GroupBySize(rows)
                mtl == MonthlyTimeline(rows)
            IN  /\ df' = [columns |-> Append(df.columns, "YearMonth"), rows |-> rows]
                /\ avg_rpm' = SeriesMean(monthly_risks_opened)
                /\ monthly_timeline' = mtl
                /\ monthly_rpm_df' =
                     [YearMonth |-> mtl,
                      RisksOpened |-> Reindex(monthly_risks_opened, mtl),
                      ExpectedOpenRisks |-> MonthlyExpectedOpen(rows, mtl),
                      ActualOpenRisks |-> MonthlyActualOpen(rows, mtl)]
                /\ mret' = "frame"
    /\ pc' = "monthly"
    /\ UNCHANGED << burndown_vars, plot_vars, err, burndown_calls, role_vars >>

\* metrics.py generate_burndown(df): converts the date columns of its argument
\* in place, then computes the series. It may be called again on the same table.
metrics_generate_burndown ==
    /\ pc \in {"loaded", "m_burndown"}
    /\ df_arg' = df
    /\ IF Len(df.rows) = 0
       THEN /\ ret' = "None"
            /\ UNCHANGED << df, timeline, expected_counts, actual_counts, err >>
            /\ burndown_calls' = Append(burndown_calls, NoSeries("None", ""))
            /\ pc' = IF pc = "loaded" THEN "m_burndown" ELSE "m_burndown2"
       ELSE \E rows \in {ConvertDates(df.rows)} :
            \E b \in {MetricsBurndown(rows)} :
                /\ df' = [df EXCEPT !.rows = rows]
                /\ ret' = b.ret
                /\ timeline' = b.timeline
                /\ expected_counts' = b.expected
                /\ actual_counts' = b.actual
                /\ err' = b.err
                /\ burndown_calls' = Append(burndown_calls, b)
                /\ pc' = IF b.err # "" THEN "failed"
                         ELSE IF pc = "loaded" THEN "m_burndown" ELSE "m_burndown2"
    /\ UNCHANGED << plot_vars, monthly_vars, role_vars >>

\* The months of a groupby result in index order.
GroupKeys(f) ==
    IF DOMAIN f = {} THEN <<>>
    ELSE LET lo == CHOOSE p \in DOMAIN f : \A q \in DOMAIN f : ~PeriodLt(q, p)
             hi == CHOOSE p \in DOMAIN f : \A q \in DOMAIN f : ~PeriodLt(p, q)
         IN SelectSeq(period_range(lo, hi), LAMBDA p : p \in DOMAIN f)

\* metrics.py generate_monthly_metrics(df): adds the 'YearMonth' column to its
\* argument and returns the number of risks opened per month.
metrics_generate_monthly_metrics ==
    /\ pc \in {"loaded", "m_burndown", "m_burndown2"}
    /\ df_arg' = df
    /\ LET rows == WithYearMonth(df.rows)
           sizes == GroupBySize(rows)
       IN  /\ df' = [columns |-> Append(df.columns, "YearMonth"), rows |-> rows]
           /\ monthly_rpm_df' = [EmptyRpm EXCEPT !.YearMonth = GroupKeys(sizes),
                                     !.RisksOpened = [i \in 1..Len(GroupKeys(sizes)) |->
                                                         sizes[GroupKeys(sizes)[i]]]]
           /\ mret' = "sizes"
    /\ pc' = "m_monthly"
    /\ UNCHANGED << burndown_vars, plot_vars, monthly_timeline, avg_rpm, err, burndown_calls,
                    role_vars >>

Next ==
    \/ tech_manager_filter
    \/ date_conversion
    \/ select_part
    \/ filter_by_user_type
    \/ generate_burndown
    \/ plot_burndown
    \/ generate_monthly_metrics
    \/ metrics_generate_burndown
    \/ metrics_generate_monthly_metrics

Spec == Init /\ [][Next]_vars

\* ------------------------------------------------------------ properties

\* The number of a day of 2000..2099 counted from 31-Dec-1999, for stating the
\* properties in plain arithmetic.
DaysBeforeMonth == << 0, 31, 59, 90, 120, 151, 181, 212, 243, 273, 304, 334 >>
DayNumber(t) ==
    (t.y - 2000) * 365 + ((t.y - 2000 + 3) \div 4) + DaysBeforeMonth[t.m]
        + (IF (t.y % 4 = 0) /\ t.m > 2 THEN 1 ELSE 0) + t.d

RowIds == 1..Len(df.rows)
Absent(c) == c.kind \in {"NaT", "None"}

\* The rows that are expected open / actually open on day number n.
ExpectedOpenOn(n) ==
    {j \in RowIds : DayNumber(df.rows[j].open) <= n /\ DayNumber(df.rows[j].end) > n}
ActualOpenOn(n) ==
    {j \in RowIds : /\ DayNumber(df.rows[j].open) <= n
                    /\ (Absent(df.rows[j].closure) \/ DayNumber(df.rows[j].closure) > n)}

\* The bounds of the daily timeline as the claims state them.
FirstOpenDay == CHOOSE n \in {DayNumber(df.rows[j].open) : j \in RowIds} :
                    \A j \in RowIds : n <= DayNumber(df.rows[j].open)
EndDays ==
    {DayNumber(df.rows[j].end) : j \in RowIds}
        \cup {DayNumber(df.rows[j].closure) : j \in {k \in RowIds : ~Absent(df.rows[k].closure)}}
LastDay == CHOOSE n \in EndDays : \A k \in EndDays : k <= n

\* C1: for a non-empty record set, on every day t of the timeline that
\* generate_burndown returns (either implementation), expected_counts[t] is the
\* number of records with open_date <= t and expected_end_date > t.
C1_ExpectedCounts ==
    ret = "series" =>
        /\ Len(expected_counts) = Len(timeline)
        /\ \A i \in 1..Len(timeline) :
              expected_counts[i] = Cardinality(ExpectedOpenOn(DayNumber(timeline[i])))

\* A day on which one record opens (and is counted) and another reaches its
\* expected end (and is not).
C1_Witness ==
    /\ pc = "burndown"
    /\ ret = "series"
    /\ \E i \in 1..Len(timeline) : \E j, k \in RowIds :
          /\ df.rows[j].open = timeline[i]
          /\ DayNumber(df.rows[j].end) > DayNumber(timeline[i])
          /\ df.rows[k].end = timeline[i]
          /\ DayNumber(df.rows[k].open) < DayNumber(timeline[i])
          /\ expected_counts[i] = 1

\* C2: for a non-empty record set, on every day t of the timeline that
\* generate_burndown returns (either implementation), actual_counts[t] is the
\* number of records with open_date <= t and closure_date absent or > t.
C2_ActualCounts ==
    ret = "series" =>
        /\ Len(actual_counts) = Len(timeline)
        /\ \A i \in 1..Len(timeline) :
              actual_counts[i] = Cardinality(ActualOpenOn(DayNumber(timeline[i])))

\* Two records opened the same day, one closed before t, one never closed,
\* both expected to end after t: expected 2, actual 1 at t.
C2_Witness ==
    /\ pc = "burndown"
    /\ ret = "series"
    /\ Len(df.rows) = 2
    /\ df.rows[1].open = df.rows[2].open
    /\ \E i \in 1..Len(timeline) :
          /\ ~Absent(df.rows[1].closure)
          /\ DayNumber(df.rows[1].closure) < DayNumber(timeline[i])
          /\ Absent(df.rows[2].closure)
          /\ DayNumber(df.rows[1].end) > DayNumber(timeline[i])
          /\ DayNumber(df.rows[2].end) > DayNumber(timeline[i])
          /\ expected_counts[i] = 2
          /\ actual_counts[i] = 1

\* C3: for a non-empty record set the timeline is the consecutive days from the
\* earliest open_date to the latest of all expected_end_date and present
\* closure_date values, both included, one entry per day.
C3_Timeline ==
    ret = "series" =>
        /\ Len(timeline) = (IF LastDay >= FirstOpenDay THEN LastDay - FirstOpenDay + 1 ELSE 0)
        /\ \A i \in 1..Len(timeline) :
              timeline[i].kind = "ts" /\ DayNumber(timeline[i]) = FirstOpenDay + i - 1

\* A timeline that runs over a month end and whose last day is a closure date
\* later than every expected end date.
C3_Witness ==
    /\ pc = "burndown"
    /\ ret = "series"
    /\ Len(timeline) >= 3
    /\ timeline[1].m # timeline[Len(timeline)].m
    /\ \E j \in RowIds : df.rows[j].closure = timeline[Len(timeline)]
    /\ \A j \in RowIds : DayNumber(df.rows[j].end) < DayNumber(timeline[Len(timeline)])

\* The day number of the last calendar day of a month.
LastDayOfMonth(p) ==
    DayNumber(IF p.m = 12 THEN Ts(p.y + 1, 1, 1) ELSE Ts(p.y, p.m + 1, 1)) - 1

\* C4: for every month m of the monthly timeline, 'Expected Open Risks' and
\* 'Actual Open Risks' of generate_monthly_metrics are the expected-open and
\* actual-open counts on the last calendar day of m.
C4_MonthlySnapshot ==
    mret = "frame" =>
        /\ Len(monthly_rpm_df.ExpectedOpenRisks) = Len(monthly_timeline)
        /\ Len(monthly_rpm_df.ActualOpenRisks) = Len(monthly_timeline)
        /\ \A i \in 1..Len(monthly_timeline) :
              /\ monthly_rpm_df.ExpectedOpenRisks[i] =
                   Cardinality(ExpectedOpenOn(LastDayOfMonth(monthly_timeline[i])))
              /\ monthly_rpm_df.ActualOpenRisks[i] =
                   Cardinality(ActualOpenOn(LastDayOfMonth(monthly_timeline[i])))

\* One record, open from the first day of a month and closed on a day strictly
\* inside the following month: counted as actually open for the first month and
\* not for the following one.
C4_Witness ==
    /\ pc = "monthly" /\ mret = "frame"
    /\ Len(df.rows) = 1
    /\ \E i \in 1..(Len(monthly_timeline) - 1) :
          /\ df.rows[1].open = Ts(monthly_timeline[i].y, monthly_timeline[i].m, 1)
          /\ df.rows[1].closure.kind = "ts"
          /\ df.rows[1].closure.y = monthly_timeline[i + 1].y
          /\ df.rows[1].closure.m = monthly_timeline[i + 1].m
          /\ df.rows[1].closure.d > 1
          /\ DayNumber(df.rows[1].closure) < LastDayOfMonth(monthly_timeline[i + 1])
          /\ monthly_rpm_df.ActualOpenRisks[i] = 1
          /\ monthly_rpm_df.ActualOpenRisks[i + 1] = 0

RECURSIVE SeqSum(_)
SeqSum(q) == IF Len(q) = 0 THEN 0 ELSE Head(q) + SeqSum(Tail(q))

\* C5: the average risks opened per month that generate_monthly_metrics returns
\* is the sum of 'Risks Opened' over the months of the monthly timeline divided
\* by the number of those months, months without an opened record counting as 0.
C5_AverageOverTimeline ==
    (mret = "frame" /\ Len(monthly_timeline) > 0) =>
        avg_rpm.num * Len(monthly_timeline) = SeqSum(monthly_rpm_df.RisksOpened) * avg_rpm.den

\* plot_burndown has run its peak detection on a returned series.
PeaksDetected ==
    ret = "series" /\ (pc \in {"plotted", "monthly"} \/ (pc = "failed" /\ err = "IndexError"))

\* C6: when the actual_counts series handed to the peak detector of
\* plot_burndown is empty or all zero, the peak set is empty.
C6_NoPeaksWhenAllZero ==
    (PeaksDetected /\ \A i \in 1..Len(actual_counts) : actual_counts[i] = 0) =>
        peaks_indices = <<>>

SelectedBeforeTimeline == DayNumber(selected_date) < DayNumber(timeline[1])
SelectedAfterTimeline == DayNumber(selected_date) > DayNumber(timeline[Len(timeline)])

\* C7 as written: for a reference date outside the range of the daily timeline
\* the drill-down of plot_burndown returns no record, and raises no error.
C7_EmptyOutsideTimeline ==
    (pc = "plotted" /\ ret = "series" /\ (SelectedBeforeTimeline \/ SelectedAfterTimeline)) =>
        open_risks_on_date = <<>> /\ err = ""

\* C7 as amended: before the first day of the timeline the drill-down returns
\* no record; after its last day it returns exactly the records opened on or
\* before the reference date that have no closure date; no error is raised.
C7_DrillDownOutsideTimeline ==
    (pc = "plotted" /\ ret = "series") =>
        /\ SelectedBeforeTimeline => open_risks_on_date = <<>>
        /\ SelectedAfterTimeline =>
              open_risks_on_date =
                  SelectSeq(df.rows, LAMBDA r : DayNumber(r.open) <= DayNumber(selected_date)
                                                   /\ Absent(r.closure))
        /\ err = ""

\* A date after the last day of the timeline for which the drill-down returns
\* some records (those never closed) and leaves out others.
C7_Witness ==
    /\ pc = "plotted" /\ ret = "series"
    /\ SelectedAfterTimeline
    /\ open_risks_on_date # <<>>
    /\ Len(open_risks_on_date) < Len(df.rows)

\* The place of a date of the timeline in it.
TimelineIndex(t) == DayNumber(t) - DayNumber(timeline[1]) + 1

\* C8 as written: for every record with open_date <= expected_end_date,
\* expected_open holds on the open date and fails on the expected end date.
C8_BoundsInclusiveExclusive ==
    ret = "series" =>
        \A j \in RowIds :
            DayNumber(df.rows[j].open) <= DayNumber(df.rows[j].end) =>
                /\ ExpectedOpen(df.rows[j], df.rows[j].open)
                /\ ~ExpectedOpen(df.rows[j], df.rows[j].end)

\* C8 as amended: for every record with open_date < expected_end_date,
\* expected_open holds on the open date (so the record is in the count of that
\* day) and fails on the expected end date (so it is not in that day's count).
C8_BoundsWhenOpenBeforeEnd ==
    ret = "series" =>
        \A j \in RowIds :
            DayNumber(df.rows[j].open) < DayNumber(df.rows[j].end) =>
                /\ ExpectedOpen(df.rows[j], df.rows[j].open)
                /\ ~ExpectedOpen(df.rows[j], df.rows[j].end)
                /\ expected_counts[TimelineIndex(df.rows[j].open)] >= 1
                /\ expected_counts[TimelineIndex(df.rows[j].end)] <= Len(df.rows) - 1

\* One record with open_date < expected_end_date: counted on its first day, not
\* on its last.
C8_Witness ==
    /\ pc = "burndown" /\ ret = "series"
    /\ Len(df.rows) = 1
    /\ DayNumber(df.rows[1].open) < DayNumber(df.rows[1].end)
    /\ expected_counts[TimelineIndex(df.rows[1].open)] = 1
    /\ expected_counts[TimelineIndex(df.rows[1].end)] = 0

\* C9: after generate_burndown or generate_monthly_metrics returns, the table
\* it was given has the same columns and the same values as before the call.
C9_InputNotMutated ==
    pc \in {"burndown", "burndown2", "monthly", "m_burndown", "m_burndown2", "m_monthly"} =>
        df.columns = df_arg.columns /\ df.rows = df_arg.rows

IsPeak(i) == \E k \in 1..Len(peaks_indices) : peaks_indices[k] = i

\* C10: the peak set of plot_burndown is exactly the set of indices i with
\* actual_counts[i] >= 0.8 * max(actual_counts), a count equal to the threshold
\* included.
C10_PeakSet ==
    PeaksDetected =>
        /\ \A k \in 1..Len(peaks_indices) :
              /\ peaks_indices[k] \in 1..Len(actual_counts)
              /\ k > 1 => peaks_indices[k - 1] < peaks_indices[k]
        /\ \A i \in 1..Len(actual_counts) :
              IsPeak(i) <=> \A j \in 1..Len(actual_counts) : 5 * actual_counts[i] >= 4 * actual_counts[j]

\* A series with a count below its maximum and equal to the threshold, flagged,
\* and a count below the threshold, not flagged.
C10_Witness ==
    /\ pc = "plotted" /\ ret = "series"
    /\ \E i, m \in 1..Len(actual_counts) :
          /\ actual_counts[i] < actual_counts[m]
          /\ 5 * actual_counts[i] = 4 * actual_counts[m]
          /\ IsPeak(i) /\ IsPeak(m)
    /\ \E i \in 1..Len(actual_counts) : ~IsPeak(i)

\* C11: when actual_counts holds a non-zero value, the peak set of
\* plot_burndown is not empty and holds every index at which actual_counts
\* attains its maximum.
C11_PeaksHoldMaximum ==
    (PeaksDetected /\ \E i \in 1..Len(actual_counts) : actual_counts[i] # 0) =>
        /\ peaks_indices # <<>>
        /\ \A i \in 1..Len(actual_counts) :
              (\A j \in 1..Len(actual_counts) : actual_counts[j] <= actual_counts[i]) => IsPeak(i)

\* A series whose non-zero maximum is attained on two days, both flagged, and
\* with a day that is not flagged.
C11_Witness ==
    /\ pc = "plotted" /\ ret = "series"
    /\ \E i, k \in 1..Len(actual_counts) :
          /\ i < k
          /\ actual_counts[i] > 0
          /\ actual_counts[i] = actual_counts[k]
          /\ \A j \in 1..Len(actual_counts) : actual_counts[j] <= actual_counts[i]
          /\ IsPeak(i) /\ IsPeak(k)
    /\ \E i \in 1..Len(actual_counts) : ~IsPeak(i)

\* The number of a calendar month, and the bounds of the monthly timeline as
\* the claims state them.
MonthNumber(t) == t.y * 12 + t.m
FirstOpenMonth == CHOOSE n \in {MonthNumber(df.rows[j].open) : j \in RowIds} :
                      \A j \in RowIds : n <= MonthNumber(df.rows[j].open)
EndMonths ==
    {MonthNumber(df.rows[j].end) : j \in RowIds}
        \cup {MonthNumber(df.rows[j].closure) : j \in {k \in RowIds : ~Absent(df.rows[k].closure)}}
LastMonth == CHOOSE n \in EndMonths : \A k \in EndMonths : k <= n

\* C12: for a non-empty record set the monthly timeline of
\* generate_monthly_metrics is the consecutive calendar months from the month
\* of the earliest open_date to the month of the latest of all
\* expected_end_date and present closure_date values, both included, one entry
\* per month.
C12_MonthlyTimeline ==
    mret = "frame" =>
        /\ Len(monthly_timeline) =
              (IF LastMonth >= FirstOpenMonth THEN LastMonth - FirstOpenMonth + 1 ELSE 0)
        /\ \A i \in 1..Len(monthly_timeline) :
              /\ monthly_timeline[i].kind = "period"
              /\ monthly_timeline[i].m \in 1..12
              /\ MonthNumber(monthly_timeline[i]) = FirstOpenMonth + i - 1

\* A monthly timeline of three months or more whose last month is the month of
\* a closure date, every expected end date lying in an earlier month.
C12_Witness ==
    /\ pc = "monthly" /\ mret = "frame"
    /\ Len(monthly_timeline) >= 3
    /\ \E j \in RowIds :
          /\ ~Absent(df.rows[j].closure)
          /\ MonthNumber(df.rows[j].closure) = MonthNumber(monthly_timeline[Len(monthly_timeline)])
    /\ \A j \in RowIds :
          MonthNumber(df.rows[j].end) < MonthNumber(monthly_timeline[Len(monthly_timeline)])

\* The rows opened in month number n.
OpenedIn(n) == {j \in RowIds : MonthNumber(df.rows[j].open) = n}

\* C13: for every month m of the monthly timeline, 'Risks Opened' is the number
\* of records whose open_date falls in m, 0 when there is none.
C13_RisksOpened ==
    mret = "frame" =>
        /\ Len(monthly_rpm_df.RisksOpened) = Len(monthly_timeline)
        /\ \A i \in 1..Len(monthly_timeline) :
              monthly_rpm_df.RisksOpened[i] =
                  Cardinality(OpenedIn(MonthNumber(monthly_timeline[i])))

\* Two records opened in one month, expected to end in the next, in which
\* nothing was opened: 'Risks Opened' is 2, then 0.
C13_Witness ==
    /\ pc = "monthly" /\ mret = "frame"
    /\ \E i, k \in 1..Len(monthly_timeline) :
          /\ monthly_rpm_df.RisksOpened[i] = 2
          /\ monthly_rpm_df.RisksOpened[k] = 0
          /\ \E j \in RowIds : MonthNumber(df.rows[j].end) = MonthNumber(monthly_timeline[k])

\* Every record was opened in a month of the monthly timeline.
AllOpenedWithinTimeline ==
    \A j \in RowIds : \E i \in 1..Len(monthly_timeline) :
        MonthNumber(df.rows[j].open) = MonthNumber(monthly_timeline[i])

\* C14: when every record's open_date falls within the span of the monthly
\* timeline, 'Risks Opened' summed over the months of the timeline is the
\* number of records.
C14_OpenedSumsToTotal ==
    (mret = "frame" /\ AllOpenedWithinTimeline) =>
        SeqSum(monthly_rpm_df.RisksOpened) = Len(df.rows)

\* Two records opened in the same month and a timeline of more than one month.
C14_Witness ==
    /\ pc = "monthly" /\ mret = "frame"
    /\ AllOpenedWithinTimeline
    /\ Len(df.rows) = 2
    /\ MonthNumber(df.rows[1].open) = MonthNumber(df.rows[2].open)
    /\ Len(monthly_timeline) >= 2
    /\ SeqSum(monthly_rpm_df.RisksOpened) = 2

\* C15: given an empty record set, generate_burndown returns the three absent
\* results and generate_monthly_metrics returns the three absent results, and
\* nothing is raised.
C15_EmptyGivesNoSeries ==
    Len(df.rows) = 0 =>
        /\ err = "" /\ pc # "failed"
        /\ pc \in {"burndown", "burndown2", "plotted", "monthly", "m_burndown", "m_burndown2"} =>
              ret = "None" /\ timeline = <<>> /\ expected_counts = <<>> /\ actual_counts = <<>>
        /\ pc = "monthly" =>
              mret = "None" /\ monthly_timeline = <<>> /\ monthly_rpm_df = EmptyRpm
                  /\ avg_rpm = NoMean

\* The rendering of an empty part has gone through both generators.
C15_Witness ==
    /\ pc = "monthly"
    /\ Len(df.rows) = 0
    /\ ret = "None" /\ mret = "None" /\ err = ""

\* Every record has its expected end date on its open date and no closure date
\* (the records may all share one day).
Degenerate ==
    /\ Len(df.rows) >= 1
    /\ \A j \in RowIds : df.rows[j].end = df.rows[j].open /\ Absent(df.rows[j].closure)

\* C16: for a degenerate record set, generate_burndown and the peak detection
\* and drill-down of plot_burndown complete without error, the timeline has at
\* least one day, and timeline, expected_counts and actual_counts have the same
\* length.
C16_DegenerateCompletes ==
    Degenerate =>
        /\ err = "" /\ pc # "failed"
        /\ pc \in {"burndown", "burndown2", "plotted", "monthly", "m_burndown", "m_burndown2"} =>
              /\ ret = "series"
              /\ Len(timeline) >= 1
              /\ Len(expected_counts) = Len(timeline)
              /\ Len(actual_counts) = Len(timeline)
        /\ pc \in {"plotted", "monthly"} =>
              selected_date.kind = "ts" /\ peaks_indices # <<>>

\* All records on one single day: a timeline of one day, plotted and queried.
C16_Witness ==
    /\ pc = "plotted"
    /\ Degenerate
    /\ Len(df.rows) = 2
    /\ df.rows[1].open = df.rows[2].open
    /\ Len(timeline) = 1
    /\ expected_counts = << 0 >> /\ actual_counts = << 2 >>
    /\ err = ""

\* C17: two calls in succession of generate_burndown on the same record set
\* give the same timeline, expected_counts and actual_counts, also for the
\* metrics.py variant, which converts the date columns of its argument in place.
C17_SecondCallSame ==
    Len(burndown_calls) >= 2 =>
        /\ burndown_calls[2] = burndown_calls[1]
        /\ burndown_calls[2].err = ""

\* The metrics.py variant called twice on a table that came with text dates,
\* which the first call replaced by Timestamps.
C17_Witness ==
    /\ pc = "m_burndown2"
    /\ Len(burndown_calls) = 2
    /\ burndown_calls[1].ret = "series"
    /\ Len(burndown_calls[1].timeline) >= 2
    /\ burndown_calls[2].timeline = timeline
    /\ \E j \in RowIds : df.rows[j].open.kind = "ts" /\ df.rows[j].closure.kind = "NaT"

\* The records of a selection, by their three dates.
RowDates(rows) == [k \in 1..Len(rows) |-> << rows[k].open, rows[k].end, rows[k].closure >>]

\* The rows actually open on the day t, in table order.
ActualOpenRowsOn(t) ==
    SelectSeq(df.rows, LAMBDA r : /\ DayNumber(r.open) <= DayNumber(t)
                                  /\ (Absent(r.closure) \/ DayNumber(r.closure) > DayNumber(t)))

\* C18: the records plot_burndown retrieves for the highest peak are the
\* records actually open on a day of the timeline whose actual count is the
\* maximum of the series, so they are max(actual_counts) in number.
C18_HighestPeakRisks ==
    (PeaksDetected /\ peaks_indices # <<>>) =>
        /\ \E i \in 1..Len(actual_counts) :
              /\ \A j \in 1..Len(actual_counts) : actual_counts[j] <= actual_counts[i]
              /\ RowDates(peak_risks) = RowDates(ActualOpenRowsOn(timeline[i]))
        /\ \A j \in 1..Len(actual_counts) : actual_counts[j] <= Len(peak_risks)
        /\ \E j \in 1..Len(actual_counts) : actual_counts[j] = Len(peak_risks)

\* Several days flagged, the last of them below the maximum, and a day not
\* flagged; the records of the day of the maximum are retrieved.
C18_Witness ==
    /\ pc = "plotted" /\ ret = "series"
    /\ Len(peaks_indices) >= 2
    /\ Len(peaks_indices) < Len(actual_counts)
    /\ actual_counts[peaks_indices[Len(peaks_indices)]] < Len(peak_risks)
    /\ Len(peak_risks) = actual_counts[peaks_indices[1]]

\* The risk types of the rows of a table, in table order.
RiskTypeCol(rows) == [k \in 1..Len(rows) |-> rows[k].risk_type]
AllTechnical(rows) == \A k \in 1..Len(rows) : rows[k].risk_type = "Technical"
TechnicalIn(rows) == {k \in 1..Len(rows) : rows[k].risk_type = "Technical"}

\* C19: when user_type is 'tech', every record set handed to the series
\* generators of the dashboard and to the current-risks listing holds only
\* records with risk_type 'Technical' (and all of those); for any other
\* user_type the 'all risks' computation and the listing receive the full,
\* unfiltered record set.
C19_RolePartition ==
    /\ (user_type = "tech" /\ part # "") =>
          /\ AllTechnical(df_arg.rows)
          /\ Len(df_arg.rows) = Cardinality(TechnicalIn(uploaded_df.rows))
    /\ (user_type = "tech" /\ pc = "listed") =>
          /\ AllTechnical(filtered_df)
          /\ Len(filtered_df) = Cardinality(TechnicalIn(uploaded_df.rows))
    /\ (user_type # "tech" /\ part = "bus") =>
          RiskTypeCol(df_arg.rows) = RiskTypeCol(uploaded_df.rows)
    /\ (user_type # "tech" /\ pc = "listed") =>
          filtered_df = uploaded_df.rows

\* A technical manager's page on a table with a Technical risk among risks of
\* another type: the generators have been given the Technical one alone.
C19_Witness ==
    /\ user_type = "tech"
    /\ pc = "monthly"
    /\ Len(uploaded_df.rows) = 3
    /\ Cardinality(TechnicalIn(uploaded_df.rows)) = 1
    /\ Len(df_arg.rows) = 1
    /\ ret = "series" /\ mret = "frame"

\* The latest expected end date, as a day number.
LastEndDay == CHOOSE n \in {DayNumber(df.rows[j].end) : j \in RowIds} :
                  \A j \in RowIds : DayNumber(df.rows[j].end) <= n

\* C20: for a non-empty record set without any closure date, the upper bound
\* of the timeline computed by generate_burndown is max(expected_end_date), in
\* dashboard.py as in metrics.py; and for every record set the two compute the
\* same upper bound.
C20_SameUpperBound ==
    Len(burndown_calls) >= 1 =>
        /\ \A k \in 1..Len(burndown_calls) :
              ((\A j \in RowIds : Absent(df.rows[j].closure)) /\ Len(df.rows) >= 1) =>
                  /\ burndown_calls[k].max_date.kind = "ts"
                  /\ DayNumber(burndown_calls[k].max_date) = LastEndDay
        /\ \A k \in 1..Len(burndown_calls) :
              Len(df.rows) >= 1 =>
                  /\ burndown_calls[k].max_date = DashMaxDate(df.rows)
                  /\ burndown_calls[k].max_date = MetricsMaxDate(df.rows)

\* metrics.py generate_burndown called on two records without closure date and
\* with different expected end dates, the later one second.
C20_Witness ==
    /\ pc = "m_burndown"
    /\ Len(df.rows) = 2
    /\ \A j \in RowIds : Absent(df.rows[j].closure)
    /\ DayNumber(df.rows[1].end) < DayNumber(df.rows[2].end)
    /\ burndown_calls[1].max_date = df.rows[2].end

\* Every record has its open date on or before its expected end date.
OpenNotAfterEnd ==
    /\ Len(df.rows) >= 1
    /\ \A j \in RowIds : DayNumber(df.rows[j].open) <= DayNumber(df.rows[j].end)

\* C21: for a non-empty record set with open_date <= expected_end_date on
\* every record, the last entry of the daily expected_counts and the last entry
\* of the monthly 'Expected Open Risks' are 0, and the last entry of the daily
\* actual_counts is the number of records without closure date.
C21_LastEntries ==
    /\ (ret = "series" /\ OpenNotAfterEnd) =>
          /\ Len(timeline) >= 1
          /\ expected_counts[Len(expected_counts)] = 0
          /\ actual_counts[Len(actual_counts)] =
                Cardinality({j \in RowIds : Absent(df.rows[j].closure)})
    /\ (mret = "frame" /\ OpenNotAfterEnd) =>
          /\ Len(monthly_timeline) >= 1
          /\ monthly_rpm_df.ExpectedOpenRisks[Len(monthly_timeline)] = 0

\* Two records, one never closed and one closed on the last day of the
\* timeline, after both expected end dates: the last actual count is 1.
C21_Witness ==
    /\ pc = "monthly" /\ ret = "series" /\ mret = "frame"
    /\ OpenNotAfterEnd
    /\ Len(df.rows) = 2
    /\ \E j, k \in RowIds :
          /\ Absent(df.rows[j].closure)
          /\ df.rows[k].closure = timeline[Len(timeline)]
          /\ DayNumber(df.rows[k].end) < DayNumber(df.rows[k].closure)
          /\ DayNumber(df.rows[j].open) < DayNumber(df.rows[j].end)
    /\ actual_counts[Len(actual_counts)] = 1
    /\ expected_counts[1] >= 1

\* The last calendar day of the i-th month of the monthly timeline lies within
\* the daily timeline.
MonthEndInTimeline(i) ==
    /\ Len(timeline) >= 1
    /\ DayNumber(timeline[1]) <= LastDayOfMonth(monthly_timeline[i])
    /\ LastDayOfMonth(monthly_timeline[i]) <= DayNumber(timeline[Len(timeline)])

\* C22: for the same record set, for every month of the monthly timeline whose
\* last calendar day lies within the daily timeline, the monthly expected-open
\* and actual-open values are the daily expected_counts and actual_counts at
\* that day; only the last month's last day may lie beyond the daily timeline.
C22_MonthlyMatchesDaily ==
    (ret = "series" /\ mret = "frame") =>
        /\ \A i \in 1..Len(monthly_timeline) :
              MonthEndInTimeline(i) =>
                  LET d == LastDayOfMonth(monthly_timeline[i]) - DayNumber(timeline[1]) + 1
                  IN  /\ monthly_rpm_df.ExpectedOpenRisks[i] = expected_counts[d]
                      /\ monthly_rpm_df.ActualOpenRisks[i] = actual_counts[d]
        /\ \A i \in 1..(Len(monthly_timeline) - 1) : MonthEndInTimeline(i)

\* A record expected open over a month end that lies within the daily
\* timeline, where month and day both count it, and a last month whose last
\* day lies beyond the daily timeline.
C22_Witness ==
    /\ pc = "monthly" /\ ret = "series" /\ mret = "frame"
    /\ Len(monthly_timeline) >= 2
    /\ MonthEndInTimeline(1)
    /\ monthly_rpm_df.ExpectedOpenRisks[1] >= 1
    /\ monthly_rpm_df.ActualOpenRisks[1] # monthly_rpm_df.ExpectedOpenRisks[1]
    /\ ~MonthEndInTimeline(Len(monthly_timeline))

====
